---------------------------- MODULE Spec2Model ----------------------------
(***************************************************************************)
(* Model of pg_fts/migrations.py: the SQL-template helper PgFtsSQL and the *)
(* four migration operations CreateFTSTriggerOperation,                    *)
(* DeleteFTSTriggerOperation, CreateFTSIndexOperation and                  *)
(* DeleteFTSIndexOperation.                                                *)
(*                                                                         *)
(* Python values are modelled as follows.                                  *)
(*   - a field object is a record [name, column, cls, dictionary, fields]; *)
(*     get_attname_column()[1] is its column;                              *)
(*   - a model class is a record [db_table, fields];                       *)
(*   - the rendered migration state is a function from model names to      *)
(*     model classes;                                                      *)
(*   - an SQL string is the sequence of its statements, each statement a   *)
(*     record holding the literal keyword of the template and the text     *)
(*     substituted into each of the template's holes;                      *)
(*   - the result of a call is a record [raised, ...], raised = "None"     *)
(*     when the call returns normally.                                     *)
(***************************************************************************)
EXTENDS Naturals, Sequences, FiniteSets, TLC

VARIABLES
    state,      \* the migration project state handed to the operations
    db,         \* the database: named functions, triggers and indexes
    op,         \* the operation object most recently constructed
    last,       \* record of the most recent call on an operation
    installed,  \* the trigger function installed on the table (row model)
    rows        \* the rows of the table (row model)

vars == <<state, db, op, last, installed, rows>>

(***************************************************************************)
(* Bounds of the model.                                                    *)
(***************************************************************************)
\* largest number of source fields a TSVectorField indexes
MaxFields == 2
\* number of rows of the table in the row model
MaxRows == 1

(***************************************************************************)
(* Module-level names.                                                     *)
(***************************************************************************)
\* lines 6-7: the tuple has no comma after its second literal, so Python
\* joins the second and third literals into one string.
__all__ == << "CreateFTSIndexOperation",
              "CreateFTSTriggerOperation" \o "DeleteFTSIndexOperation",
              "DeleteFTSTriggerOperation" >>

\* the classes the module defines that derive from Operation
OperationClasses == { "CreateFTSTriggerOperation", "DeleteFTSTriggerOperation",
                      "CreateFTSIndexOperation", "DeleteFTSIndexOperation" }

\* the names bound in the module's namespace
ModuleNames ==
    OperationClasses \cup
    {"PgFtsSQL", "Operation", "get_model", "TSVectorField", "__all__"}

\* CreateFTSIndexOperation.INDEXS and DeleteFTSIndexOperation.INDEXS
CreateFTSIndexOperation_INDEXS == <<"gin", "gist">>

DeleteFTSIndexOperation_INDEXS == <<"gin", "gist">>

\* Python's `x in tuple`
InTuple(x, t) == \E i \in 1..Len(t) : t[i] = x

(***************************************************************************)
(* Field and model objects of the host ORM, as far as the code reads them. *)
(***************************************************************************)
Field(name, column) ==
    [name |-> name, column |-> column, cls |-> "CharField",
     dictionary |-> "", fields |-> <<>>]

TSVectorField(name, column, dictionary, fields) ==
    [name |-> name, column |-> column, cls |-> "TSVectorField",
     dictionary |-> dictionary, fields |-> fields]

\* isinstance(field, TSVectorField)
isinstance_TSVectorField(field) == field.cls = "TSVectorField"

\* field.get_attname_column() -> (attname, column)
get_attname_column(field) == <<field.name, field.column>>

\* model._meta.get_field_by_name(name) succeeds
has_field(model, name) == \E f \in model.fields : f.name = name

\* model._meta.get_field_by_name(name)[0]
get_field_by_name(model, name) == CHOOSE f \in model.fields : f.name = name

\* vector_field._get_fields_and_ranks(): the (field, rank) pairs, in the
\* order of the field's declaration
_get_fields_and_ranks(model, vector_field) ==
    [i \in 1..Len(vector_field.fields) |->
        [field |-> get_field_by_name(model, vector_field.fields[i][1]),
         rank  |-> vector_field.fields[i][2]]]

\* sep.join(parts)
RECURSIVE join(_, _)
join(sep, parts) ==
    IF Len(parts) = 0 THEN ""
    ELSE IF Len(parts) = 1 THEN parts[1]
    ELSE parts[1] \o sep \o join(sep, Tail(parts))

\* results of Python calls
Raise(exc) == [raised |-> exc, value |-> <<>>]

Return(v) == [raised |-> "None", value |-> v]


\* from pg_fts.migrations import *: binds every name of __all__, and
\* raises AttributeError for a name the module does not define
import_star ==
    IF \A i \in 1..Len(__all__) : __all__[i] \in ModuleNames
    THEN Return(__all__)
    ELSE [raised |-> "AttributeError", value |-> __all__]

(***************************************************************************)
(* class PgFtsSQL: the SQL templates and their formatting.                 *)
(***************************************************************************)
\* the name both trigger templates give the function and the trigger:
\* {model}_{fts_name}_update
trigger_name(model, fts_name) == model \o "_" \o fts_name \o "_update"

\* the name both index templates give the index: {model}_{fts_name}
index_name(model, fts_name) == model \o "_" \o fts_name

\* sql_delete_trigger with its two statements in the other order
sql_delete_trigger_function_first(model, fts_name) ==
    << [stmt |-> "DROP FUNCTION", name |-> trigger_name(model, fts_name)],
       [stmt |-> "DROP TRIGGER", name |-> trigger_name(model, fts_name),
        on |-> model] >>

\* sql_delete_trigger.format(model=..., fts_name=...)
sql_delete_trigger(model, fts_name) ==
    << [stmt |-> "DROP TRIGGER", name |-> trigger_name(model, fts_name),
        on |-> model],
       [stmt |-> "DROP FUNCTION", name |-> trigger_name(model, fts_name)] >>

\* sql_create_trigger.format(model=..., fts_name=..., fts_fields=...,
\* vectors=...): the function assigns new.{fts_name} = {vectors} on INSERT
\* and, IF {fts_fields}, on UPDATE
sql_create_trigger(model, fts_name, fts_fields, vectors) ==
    << [stmt |-> "CREATE FUNCTION", name |-> trigger_name(model, fts_name),
        insert_target |-> "new." \o fts_name, insert_value |-> vectors,
        update_if     |-> fts_fields,
        update_target |-> "new." \o fts_name, update_value |-> vectors],
       [stmt |-> "CREATE TRIGGER", name |-> trigger_name(model, fts_name),
        timing |-> "BEFORE INSERT OR UPDATE", on |-> model,
        procedure |-> trigger_name(model, fts_name)] >>

\* sql_create_index.format(model=..., fts_index=..., fts_name=...)
sql_create_index(model, fts_index, fts_name) ==
    << [stmt |-> "CREATE INDEX", name |-> index_name(model, fts_name),
        on |-> model, using |-> fts_index, column |-> fts_name] >>

\* sql_delete_index.format(model=..., fts_name=...)
sql_delete_index(model, fts_name) ==
    << [stmt |-> "DROP INDEX", name |-> index_name(model, fts_name)] >>

\* PgFtsSQL.delete_trigger(model, field)
delete_trigger(model, field) ==
    sql_delete_trigger(model.db_table, get_attname_column(field)[2])

\* PgFtsSQL._get_vector_for_field(field, weight, dictionary)
_get_vector_for_field(field, weight, dictionary) ==
    "setweight(to_tsvector(" \o dictionary \o ", COALESCE(NEW."
        \o get_attname_column(field)[2] \o ", '')), '" \o weight \o "')"

\* the comparison 'NEW.{0} <> OLD.{0}'.format(x)
changed(x) == "NEW." \o x \o " <> OLD." \o x

\* the try/except of create_fts_trigger: the dictionary expression and the
\* entries it leaves in `fields`
resolve_dictionary(model, vector_field) ==
    IF has_field(model, vector_field.dictionary)
    THEN LET dict_field == get_field_by_name(model, vector_field.dictionary)
         IN  [dictionary |-> "NEW." \o get_attname_column(dict_field)[2]
                                 \o "::regconfig",
              fields     |-> << changed(vector_field.dictionary) >>]
    ELSE [dictionary |-> "'" \o vector_field.dictionary \o "'",
          fields     |-> << >>]

\* the list `fields` of create_fts_trigger after its loop
trigger_fields(model, vector_field) ==
    LET far == _get_fields_and_ranks(model, vector_field)
    IN  resolve_dictionary(model, vector_field).fields \o
        [i \in 1..Len(far) |-> changed(get_attname_column(far[i].field)[2])]

\* the list `vectors` of create_fts_trigger after its loop
trigger_vectors(model, vector_field) ==
    LET far == _get_fields_and_ranks(model, vector_field)
        dictionary == resolve_dictionary(model, vector_field).dictionary
    IN  [i \in 1..Len(far) |->
            _get_vector_for_field(far[i].field, far[i].rank, dictionary)]

\* PgFtsSQL.create_fts_trigger(model, vector_field)
create_fts_trigger(model, vector_field) ==
    IF ~isinstance_TSVectorField(vector_field)
    THEN Raise("AttributeError")
    ELSE Return(sql_create_trigger(
                    model.db_table,
                    get_attname_column(vector_field)[2],
                    join(" OR ", trigger_fields(model, vector_field)),
                    join(" || ", trigger_vectors(model, vector_field))))

\* PgFtsSQL.create_index(model, vector_field, index)
create_index(model, vector_field, index) ==
    sql_create_index(model.db_table, index,
                     get_attname_column(vector_field)[2])

\* delete_index naming the index after the field's attname
\* (get_attname_column()[0]) instead of its column
delete_index_by_attname(model, vector_field) ==
    sql_delete_index(model.db_table, get_attname_column(vector_field)[1])

\* PgFtsSQL.delete_index(model, vector_field)
delete_index(model, vector_field) ==
    sql_delete_index(model.db_table, get_attname_column(vector_field)[2])

(***************************************************************************)
(* The schema editor and the database behind it.  The database is the set  *)
(* of named functions, triggers and indexes; creating a name that exists   *)
(* or dropping one that does not is an error.  One call of execute runs    *)
(* the statements of its SQL string in order and, on an error, raises and  *)
(* leaves the database as it was before the call.                          *)
(***************************************************************************)
execute_statement(d, s) ==
    CASE s.stmt = "CREATE FUNCTION" ->
            [ok |-> s.name \notin d.functions,
             db |-> [d EXCEPT !.functions = @ \cup {s.name}]]
      [] s.stmt = "CREATE TRIGGER" ->
            [ok |-> \A t \in d.triggers : ~(t.name = s.name /\ t.on = s.on),
             db |-> [d EXCEPT !.triggers = @ \cup
                        {[name |-> s.name, on |-> s.on,
                          procedure |-> s.procedure]}]]
      [] s.stmt = "DROP TRIGGER" ->
            [ok |-> \E t \in d.triggers : t.name = s.name /\ t.on = s.on,
             db |-> [d EXCEPT !.triggers =
                        {t \in @ : ~(t.name = s.name /\ t.on = s.on)}]]
      [] s.stmt = "DROP FUNCTION" ->
            [ok |-> s.name \in d.functions,
             db |-> [d EXCEPT !.functions = @ \ {s.name}]]
      [] s.stmt = "CREATE INDEX" ->
            [ok |-> s.name \notin d.indexes,
             db |-> [d EXCEPT !.indexes = @ \cup {s.name}]]
      [] s.stmt = "DROP INDEX" ->
            [ok |-> s.name \in d.indexes,
             db |-> [d EXCEPT !.indexes = @ \ {s.name}]]

\* the database states a script goes through, statement by statement, up
\* to and without the first statement that fails
RECURSIVE run_statements(_, _)
run_statements(d, sql) ==
    IF Len(sql) = 0 THEN << >>
    ELSE LET r == execute_statement(d, Head(sql))
         IN  IF r.ok THEN <<r.db>> \o run_statements(r.db, Tail(sql))
             ELSE << >>

\* schema_editor.execute(sql)
schema_editor_execute(d, sql) ==
    LET trace == run_statements(d, sql)
    IN  IF Len(trace) = Len(sql)
        THEN [raised |-> "None",
              db |-> IF Len(trace) = 0 THEN d ELSE trace[Len(trace)],
              trace |-> trace]
        ELSE [raised |-> "ProgrammingError", db |-> d, trace |-> trace]

(***************************************************************************)
(* The four operation classes.  An operation object is a record            *)
(* [cls, name, fts_vector, index]; index is "" for the trigger operations, *)
(* which have no such attribute.  A database_* method is modelled by the   *)
(* lookups it makes and the list of SQL strings it passes to               *)
(* schema_editor.execute.                                                  *)
(***************************************************************************)
NoObject == [cls |-> "None", name |-> "", fts_vector |-> "", index |-> ""]

\* from_state.render().get_model(app_label, self.name) followed by
\* model._meta.get_field_by_name(self.fts_vector)[0]: the exception the
\* lookups raise, "None" when both succeed
lookup_raises(self, app_label, from_state) ==
    IF <<app_label, self.name>> \notin DOMAIN from_state THEN "LookupError"
    ELSE IF ~has_field(from_state[<<app_label, self.name>>], self.fts_vector)
    THEN "FieldDoesNotExist"
    ELSE "None"

lookup_model(self, app_label, from_state) ==
    from_state[<<app_label, self.name>>]

lookup_field(self, app_label, from_state) ==
    get_field_by_name(lookup_model(self, app_label, from_state),
                      self.fts_vector)

\* ---- CreateFTSTriggerOperation
CreateFTSTriggerOperation_init(name, fts_vector) ==
    Return([cls |-> "CreateFTSTriggerOperation", name |-> name,
            fts_vector |-> fts_vector, index |-> ""])

CreateFTSTriggerOperation_state_forwards(self, app_label, st) == st

CreateFTSTriggerOperation_database_forwards(self, app_label, from_state) ==
    IF lookup_raises(self, app_label, from_state) # "None"
    THEN Raise(lookup_raises(self, app_label, from_state))
    ELSE LET model == lookup_model(self, app_label, from_state)
             vector_field == lookup_field(self, app_label, from_state)
             sql == create_fts_trigger(model, vector_field)
         IN  IF sql.raised # "None" THEN Raise(sql.raised)
             ELSE Return(<<sql.value>>)

CreateFTSTriggerOperation_database_backwards(self, app_label, from_state) ==
    IF lookup_raises(self, app_label, from_state) # "None"
    THEN Raise(lookup_raises(self, app_label, from_state))
    ELSE LET model == lookup_model(self, app_label, from_state)
             vector_field == lookup_field(self, app_label, from_state)
         IN  Return(<<delete_trigger(model, vector_field)>>)

\* ---- DeleteFTSTriggerOperation
DeleteFTSTriggerOperation_init(name, fts_vector) ==
    Return([cls |-> "DeleteFTSTriggerOperation", name |-> name,
            fts_vector |-> fts_vector, index |-> ""])

\* state_forwards removing the model from the state
DeleteFTSTriggerOperation_state_forwards_removing(self, app_label, st) ==
    [k \in DOMAIN st \ {<<app_label, self.name>>} |-> st[k]]

DeleteFTSTriggerOperation_state_forwards(self, app_label, st) == st

DeleteFTSTriggerOperation_database_forwards(self, app_label, from_state) ==
    IF lookup_raises(self, app_label, from_state) # "None"
    THEN Raise(lookup_raises(self, app_label, from_state))
    ELSE LET model == lookup_model(self, app_label, from_state)
             vector_field == lookup_field(self, app_label, from_state)
         IN  Return(<<delete_trigger(model, vector_field)>>)

DeleteFTSTriggerOperation_database_backwards(self, app_label, from_state) ==
    IF lookup_raises(self, app_label, from_state) # "None"
    THEN Raise(lookup_raises(self, app_label, from_state))
    ELSE LET model == lookup_model(self, app_label, from_state)
             vector_field == lookup_field(self, app_label, from_state)
             sql == create_fts_trigger(model, vector_field)
         IN  IF sql.raised # "None" THEN Raise(sql.raised)
             ELSE Return(<<sql.value>>)

\* ---- CreateFTSIndexOperation
\* __init__ without its assert
CreateFTSIndexOperation_init_unchecked(name, fts_vector, index) ==
    Return([cls |-> "CreateFTSIndexOperation", name |-> name,
            fts_vector |-> fts_vector, index |-> index])

CreateFTSIndexOperation_init(name, fts_vector, index) ==
    IF ~InTuple(index, CreateFTSIndexOperation_INDEXS)
    THEN [raised |-> "AssertionError", value |-> NoObject]
    ELSE Return([cls |-> "CreateFTSIndexOperation", name |-> name,
                 fts_vector |-> fts_vector, index |-> index])

CreateFTSIndexOperation_state_forwards(self, app_label, st) == st

\* database_forwards without its isinstance check
CreateFTSIndexOperation_database_forwards_unchecked(self, app_label, from_state) ==
    IF lookup_raises(self, app_label, from_state) # "None"
    THEN Raise(lookup_raises(self, app_label, from_state))
    ELSE LET model == lookup_model(self, app_label, from_state)
             vector_field == lookup_field(self, app_label, from_state)
         IN  Return(<<create_index(model, vector_field, self.index)>>)

CreateFTSIndexOperation_database_forwards(self, app_label, from_state) ==
    IF lookup_raises(self, app_label, from_state) # "None"
    THEN Raise(lookup_raises(self, app_label, from_state))
    ELSE LET model == lookup_model(self, app_label, from_state)
             vector_field == lookup_field(self, app_label, from_state)
         IN  IF ~isinstance_TSVectorField(vector_field)
             THEN Raise("AttributeError")
             ELSE Return(<<create_index(model, vector_field, self.index)>>)

CreateFTSIndexOperation_database_backwards(self, app_label, from_state) ==
    IF lookup_raises(self, app_label, from_state) # "None"
    THEN Raise(lookup_raises(self, app_label, from_state))
    ELSE LET model == lookup_model(self, app_label, from_state)
             vector_field == lookup_field(self, app_label, from_state)
         IN  Return(<<delete_index(model, vector_field)>>)

\* ---- DeleteFTSIndexOperation
DeleteFTSIndexOperation_init(name, fts_vector, index) ==
    IF ~InTuple(index, DeleteFTSIndexOperation_INDEXS)
    THEN [raised |-> "AssertionError", value |-> NoObject]
    ELSE Return([cls |-> "DeleteFTSIndexOperation", name |-> name,
                 fts_vector |-> fts_vector, index |-> index])

DeleteFTSIndexOperation_state_forwards(self, app_label, st) == st

DeleteFTSIndexOperation_database_forwards(self, app_label, from_state) ==
    IF lookup_raises(self, app_label, from_state) # "None"
    THEN Raise(lookup_raises(self, app_label, from_state))
    ELSE LET model == lookup_model(self, app_label, from_state)
             vector_field == lookup_field(self, app_label, from_state)
         IN  Return(<<delete_index(model, vector_field)>>)

\* database_backwards creating a gin index whatever self.index is
DeleteFTSIndexOperation_database_backwards_gin(self, app_label, from_state) ==
    IF lookup_raises(self, app_label, from_state) # "None"
    THEN Raise(lookup_raises(self, app_label, from_state))
    ELSE LET model == lookup_model(self, app_label, from_state)
             vector_field == lookup_field(self, app_label, from_state)
         IN  IF ~isinstance_TSVectorField(vector_field)
             THEN Raise("AttributeError")
             ELSE Return(<<create_index(model, vector_field, "gin")>>)

DeleteFTSIndexOperation_database_backwards(self, app_label, from_state) ==
    IF lookup_raises(self, app_label, from_state) # "None"
    THEN Raise(lookup_raises(self, app_label, from_state))
    ELSE LET model == lookup_model(self, app_label, from_state)
             vector_field == lookup_field(self, app_label, from_state)
         IN  IF ~isinstance_TSVectorField(vector_field)
             THEN Raise("AttributeError")
             ELSE Return(<<create_index(model, vector_field, self.index)>>)

(***************************************************************************)
(* Inputs: the migration states, the databases the migrations start from   *)
(* and the arguments of the calls.                                         *)
(***************************************************************************)
AppLabels == {"blog", "other"}

ModelNames == {"Article", "Missing"}

FieldNames == {"fts", "title", "nofield"}

IndexInputs == {"gin", "gist", "btree", "GIN"}

\* the text fields a TSVectorField may index, and the fields and literal
\* a TSVectorField may name as its dictionary
SourceNames == {"title", "body", "summary"}

Dictionaries == {"english", "lang", "dict"}

\* db_column of each field of the model
Column(n) ==
    CASE n = "body" -> "body_text"
      [] n = "dict" -> "dict_col"
      [] n = "fts"  -> "fts_idx"
      [] OTHER      -> n

\* weight given to each indexed field
Rank(n) == CASE n = "title" -> "A" [] n = "body" -> "B" [] OTHER -> "D"

\* the lists of distinct source fields a TSVectorField indexes
FieldLists ==
    {s \in UNION {[1..n -> SourceNames] : n \in 1..MaxFields} :
        \A i, j \in DOMAIN s : i # j => s[i] # s[j]}

\* the field named "fts": a TSVectorField, or a field of another class
FtsFields ==
    {Field("fts", Column("fts"))} \cup
    {TSVectorField("fts", Column("fts"), d,
                   [i \in 1..Len(s) |-> <<s[i], Rank(s[i])>>]) :
        d \in Dictionaries, s \in FieldLists}

Article(fts) ==
    [db_table |-> "blog_article",
     fields   |-> {Field(n, Column(n)) :
                       n \in SourceNames \cup {"lang", "dict"}} \cup {fts}]

ProjectStates == {<<"blog", "Article">> :> Article(fts) : fts \in FtsFields}

EmptyDatabase == [functions |-> {}, triggers |-> {}, indexes |-> {}]

\* the databases a migration may find: the trigger and the index of the
\* column fts_idx may be there already, left by earlier migrations
InitialDatabases ==
    LET t == sql_create_trigger("blog_article", Column("fts"), "", "")
        i == sql_create_index("blog_article", "gin", Column("fts"))
        d0 == EmptyDatabase
        d1 == schema_editor_execute(d0, t).db
    IN  {d0, d1, schema_editor_execute(d0, i).db,
         schema_editor_execute(d1, i).db}

NoCall ==
    [cls |-> "None", method |-> "None", self |-> NoObject, args |-> << >>,
     app_label |-> "", raised |-> "None", executed |-> << >>,
     pre |-> EmptyDatabase, trace |-> << >>,
     after_forwards |-> FALSE, origin |-> EmptyDatabase]

NoTrigger == << >>

Init ==
    /\ state \in ProjectStates
    /\ db \in InitialDatabases
    /\ op = NoObject
    /\ last = NoCall
    /\ installed = NoTrigger
    /\ rows = << >>

(***************************************************************************)
(* Actions: one per constructor and per method of each operation class.    *)
(***************************************************************************)
\* a constructor call: r is its result
Constructed(cls, args, r) ==
    /\ op' = IF r.raised = "None" THEN r.value ELSE op
    /\ last' = [NoCall EXCEPT !.cls = cls, !.method = "__init__",
                              !.self = r.value, !.args = args,
                              !.raised = r.raised]
    /\ UNCHANGED <<state, db, installed, rows>>

\* a database_forwards or database_backwards call: r is the method's
\* result, whose SQL string schema_editor.execute runs.  The record of a
\* database_backwards call that directly follows a database_forwards call
\* of the same object with the same arguments, which returned normally,
\* says so and keeps the database that call started from.
Executed(method, app_label, r) ==
    LET x == IF r.raised = "None"
             THEN schema_editor_execute(db, r.value[1])
             ELSE [raised |-> r.raised, db |-> db, trace |-> << >>]
        after == /\ method = "database_backwards"
                 /\ last.method = "database_forwards"
                 /\ last.raised = "None"
                 /\ last.self = op
                 /\ last.app_label = app_label
    IN  /\ db' = x.db
        /\ last' = [NoCall EXCEPT !.cls = op.cls, !.method = method,
                                  !.self = op, !.app_label = app_label,
                                  !.raised = x.raised, !.executed = r.value,
                                  !.pre = db, !.trace = x.trace,
                                  !.after_forwards = after,
                                  !.origin = IF after THEN last.pre
                                             ELSE EmptyDatabase]
        /\ UNCHANGED <<state, op, installed, rows>>

\* a state_forwards call: st is the state it leaves
StateForwarded(app_label, st) ==
    /\ state' = st
    /\ last' = [NoCall EXCEPT !.cls = op.cls, !.method = "state_forwards",
                              !.self = op, !.app_label = app_label]
    /\ UNCHANGED <<db, op, installed, rows>>

\* from pg_fts.migrations import *
ImportStar ==
    /\ last' = [NoCall EXCEPT !.method = "import *",
                              !.args = import_star.value,
                              !.raised = import_star.raised]
    /\ UNCHANGED <<state, db, op, installed, rows>>

CreateFTSTrigger_Init ==
    /\ \E name \in ModelNames, fts_vector \in FieldNames :
            Constructed("CreateFTSTriggerOperation", <<name, fts_vector>>,
                        CreateFTSTriggerOperation_init(name, fts_vector))

CreateFTSTrigger_StateForwards ==
    /\ op.cls = "CreateFTSTriggerOperation"
    /\ \E app_label \in AppLabels :
        StateForwarded(app_label,
            CreateFTSTriggerOperation_state_forwards(op, app_label, state))

CreateFTSTrigger_DatabaseForwards ==
    /\ op.cls = "CreateFTSTriggerOperation"
    /\ \E app_label \in AppLabels :
        Executed("database_forwards", app_label,
            CreateFTSTriggerOperation_database_forwards(op, app_label, state))

CreateFTSTrigger_DatabaseBackwards ==
    /\ op.cls = "CreateFTSTriggerOperation"
    /\ \E app_label \in AppLabels :
        Executed("database_backwards", app_label,
            CreateFTSTriggerOperation_database_backwards(op, app_label, state))

DeleteFTSTrigger_Init ==
    /\ \E name \in ModelNames, fts_vector \in FieldNames :
            Constructed("DeleteFTSTriggerOperation", <<name, fts_vector>>,
                        DeleteFTSTriggerOperation_init(name, fts_vector))

DeleteFTSTrigger_StateForwards ==
    /\ op.cls = "DeleteFTSTriggerOperation"
    /\ \E app_label \in AppLabels :
        StateForwarded(app_label,
            DeleteFTSTriggerOperation_state_forwards(op, app_label, state))

DeleteFTSTrigger_DatabaseForwards ==
    /\ op.cls = "DeleteFTSTriggerOperation"
    /\ \E app_label \in AppLabels :
        Executed("database_forwards", app_label,
            DeleteFTSTriggerOperation_database_forwards(op, app_label, state))

DeleteFTSTrigger_DatabaseBackwards ==
    /\ op.cls = "DeleteFTSTriggerOperation"
    /\ \E app_label \in AppLabels :
        Executed("database_backwards", app_label,
            DeleteFTSTriggerOperation_database_backwards(op, app_label, state))

CreateFTSIndex_Init ==
    /\ \E name \in ModelNames, fts_vector \in FieldNames, index \in IndexInputs :
            Constructed("CreateFTSIndexOperation", <<name, fts_vector, index>>,
                        CreateFTSIndexOperation_init(name, fts_vector, index))

CreateFTSIndex_StateForwards ==
    /\ op.cls = "CreateFTSIndexOperation"
    /\ \E app_label \in AppLabels :
        StateForwarded(app_label,
            CreateFTSIndexOperation_state_forwards(op, app_label, state))

CreateFTSIndex_DatabaseForwards ==
    /\ op.cls = "CreateFTSIndexOperation"
    /\ \E app_label \in AppLabels :
        Executed("database_forwards", app_label,
            CreateFTSIndexOperation_database_forwards(op, app_label, state))

CreateFTSIndex_DatabaseBackwards ==
    /\ op.cls = "CreateFTSIndexOperation"
    /\ \E app_label \in AppLabels :
        Executed("database_backwards", app_label,
            CreateFTSIndexOperation_database_backwards(op, app_label, state))

DeleteFTSIndex_Init ==
    /\ \E name \in ModelNames, fts_vector \in FieldNames, index \in IndexInputs :
            Constructed("DeleteFTSIndexOperation", <<name, fts_vector, index>>,
                        DeleteFTSIndexOperation_init(name, fts_vector, index))

DeleteFTSIndex_StateForwards ==
    /\ op.cls = "DeleteFTSIndexOperation"
    /\ \E app_label \in AppLabels :
        StateForwarded(app_label,
            DeleteFTSIndexOperation_state_forwards(op, app_label, state))

DeleteFTSIndex_DatabaseForwards ==
    /\ op.cls = "DeleteFTSIndexOperation"
    /\ \E app_label \in AppLabels :
        Executed("database_forwards", app_label,
            DeleteFTSIndexOperation_database_forwards(op, app_label, state))

DeleteFTSIndex_DatabaseBackwards ==
    /\ op.cls = "DeleteFTSIndexOperation"
    /\ \E app_label \in AppLabels :
        Executed("database_backwards", app_label,
            DeleteFTSIndexOperation_database_backwards(op, app_label, state))

Next ==
    \/ ImportStar
    \/ CreateFTSTrigger_Init
    \/ CreateFTSTrigger_StateForwards
    \/ CreateFTSTrigger_DatabaseForwards
    \/ CreateFTSTrigger_DatabaseBackwards
    \/ DeleteFTSTrigger_Init
    \/ DeleteFTSTrigger_StateForwards
    \/ DeleteFTSTrigger_DatabaseForwards
    \/ DeleteFTSTrigger_DatabaseBackwards
    \/ CreateFTSIndex_Init
    \/ CreateFTSIndex_StateForwards
    \/ CreateFTSIndex_DatabaseForwards
    \/ CreateFTSIndex_DatabaseBackwards
    \/ DeleteFTSIndex_Init
    \/ DeleteFTSIndex_StateForwards
    \/ DeleteFTSIndex_DatabaseForwards
    \/ DeleteFTSIndex_DatabaseBackwards

Spec == Init /\ [][Next]_vars

(***************************************************************************)
(* The table the trigger is installed on.  PostgreSQL runs the function of *)
(* sql_create_trigger BEFORE INSERT OR UPDATE, FOR EACH ROW; the model     *)
(* evaluates the text the templates produced: CREATE FUNCTION parses the   *)
(* expressions of the statement, and each row statement evaluates them on  *)
(* the rows NEW and OLD with SQL's three-valued logic.                     *)
(***************************************************************************)
\* SQL NULL, distinct from every text value
Null == "<null>"

\* the values of the text columns and of the regconfig columns
TextValues == {Null, "", "cat"}

ConfigValues == {"english", "simple"}

\* position of the first occurrence of sep in s, 0 when there is none
RECURSIVE find(_, _, _)
find(s, sep, i) ==
    IF i + Len(sep) - 1 > Len(s) THEN 0
    ELSE IF SubSeq(s, i, i + Len(sep) - 1) = sep THEN i
    ELSE find(s, sep, i + 1)

starts_with(s, p) == Len(s) >= Len(p) /\ SubSeq(s, 1, Len(p)) = p

\* the parts of s between the occurrences of sep
RECURSIVE split(_, _)
split(s, sep) ==
    LET i == find(s, sep, 1)
    IN  IF i = 0 THEN <<s>>
        ELSE <<SubSeq(s, 1, i - 1)>> \o
             split(SubSeq(s, i + Len(sep), Len(s)), sep)

\* a reference NEW.c or OLD.c: the column it names
parse_reference(ref, prefix) ==
    [error  |-> ~starts_with(ref, prefix),
     column |-> SubSeq(ref, Len(prefix) + 1, Len(ref))]

\* one comparison NEW.x <> OLD.y
parse_comparison(text) ==
    LET sides == split(text, " <> ")
    IN  IF Len(sides) # 2 THEN [error |-> TRUE, new |-> "", old |-> ""]
        ELSE LET l == parse_reference(sides[1], "NEW.")
                 r == parse_reference(sides[2], "OLD.")
             IN  [error |-> l.error \/ r.error,
                  new |-> l.column, old |-> r.column]

\* {fts_fields}: comparisons joined by OR
parse_condition(text) ==
    LET terms == split(text, " OR ")
    IN  [i \in 1..Len(terms) |-> parse_comparison(terms[i])]

\* the dictionary expression: 'literal' or NEW.c::regconfig
parse_dictionary(text) ==
    IF starts_with(text, "'")
    THEN [error |-> FALSE, literal |-> TRUE,
          value |-> SubSeq(text, 2, Len(text) - 1)]
    ELSE LET i == find(text, "::regconfig", 1)
             r == parse_reference(SubSeq(text, 1, i - 1), "NEW.")
         IN  [error |-> i = 0 \/ r.error, literal |-> FALSE,
              value |-> r.column]

\* one term
\* setweight(to_tsvector(<dictionary>, COALESCE(NEW.<c>, '')), '<weight>')
parse_vector(text) ==
    LET head == "setweight(to_tsvector("
        a == split(SubSeq(text, Len(head) + 1, Len(text)), ", COALESCE(")
        b == split(a[2], ", '')), '")
        c == split(b[2], "')")
        d == parse_dictionary(a[1])
        v == parse_reference(b[1], "NEW.")
    IN  [error |-> ~starts_with(text, head) \/ d.error \/ v.error,
         dictionary |-> d, column |-> v.column, weight |-> c[1]]

\* {vectors}: terms joined by ||
parse_vectors(text) ==
    LET terms == split(text, " || ")
    IN  [i \in 1..Len(terms) |-> parse_vector(terms[i])]

\* CREATE FUNCTION: the function the statement fn defines
parse_function(fn) ==
    [insert_target |-> fn.insert_target,
     insert_value  |-> parse_vectors(fn.insert_value),
     update_if     |-> parse_condition(fn.update_if),
     update_target |-> fn.update_target,
     update_value  |-> parse_vectors(fn.update_value)]

\* the value of column c of a row; a column the row does not have is an
\* error
eval_column(c, row) ==
    IF c \in DOMAIN row.data THEN [error |-> FALSE, value |-> row.data[c]]
    ELSE [error |-> TRUE, value |-> Null]

\* a <> b
sql_not_equal(a, b) ==
    IF a = Null \/ b = Null THEN "NULL"
    ELSE IF a # b THEN "TRUE" ELSE "FALSE"

\* the value of a parsed condition on the rows NEW and OLD
eval_condition(cond, new, old) ==
    LET val(i) ==
            LET l == eval_column(cond[i].new, new)
                r == eval_column(cond[i].old, old)
            IN  [error |-> cond[i].error \/ l.error \/ r.error,
                 value |-> sql_not_equal(l.value, r.value)]
    IN  IF \E i \in 1..Len(cond) : val(i).error
        THEN [error |-> TRUE, value |-> "NULL"]
        ELSE [error |-> FALSE,
              value |-> IF \E i \in 1..Len(cond) : val(i).value = "TRUE"
                        THEN "TRUE"
                        ELSE IF \E i \in 1..Len(cond) : val(i).value = "NULL"
                        THEN "NULL" ELSE "FALSE"]

\* to_tsvector(config, text): the lexemes of the text, unweighted; the
\* model keeps a non-empty text as one lexeme
to_tsvector(config, text) ==
    IF text = "" THEN << >>
    ELSE << [config |-> config, lexeme |-> text, weight |-> "D"] >>

\* setweight(vector, weight)
setweight(vector, weight) ==
    [i \in 1..Len(vector) |-> [vector[i] EXCEPT !.weight = weight]]

\* COALESCE(value, '')
coalesce(value) == IF value = Null THEN "" ELSE value

\* the value of one parsed term on the row NEW
eval_vector(term, new) ==
    LET d == IF term.dictionary.literal
             THEN [error |-> FALSE, value |-> term.dictionary.value]
             ELSE eval_column(term.dictionary.value, new)
        v == eval_column(term.column, new)
    IN  IF term.error \/ d.error \/ v.error
        THEN [error |-> TRUE, value |-> << >>]
        ELSE [error |-> FALSE,
              value |-> setweight(to_tsvector(d.value, coalesce(v.value)),
                                  term.weight)]

RECURSIVE concat(_)
concat(vs) == IF Len(vs) = 0 THEN << >> ELSE Head(vs) \o concat(Tail(vs))

\* the value of the parsed {vectors} on the row NEW
eval_vectors(terms, new) ==
    LET vals == [i \in 1..Len(terms) |-> eval_vector(terms[i], new)]
    IN  IF \E i \in 1..Len(vals) : vals[i].error
        THEN [error |-> TRUE, value |-> << >>]
        ELSE [error |-> FALSE,
              value |-> concat([i \in 1..Len(vals) |-> vals[i].value])]

\* the assignment new.<column> = value; the table has one tsvector column
assign(target, value, new, fts_column) ==
    IF target = "new." \o fts_column
    THEN [error |-> FALSE, row |-> [new EXCEPT !.fts = value]]
    ELSE [error |-> TRUE, row |-> new]

\* the body of the parsed function fn, run for TG_OP on the rows NEW and
\* OLD: RETURN NEW, or an error
trigger_function(fn, TG_OP, new, old, fts_column) ==
    IF TG_OP = "INSERT"
    THEN LET v == eval_vectors(fn.insert_value, new)
         IN  IF v.error THEN [error |-> TRUE, row |-> new]
             ELSE assign(fn.insert_target, v.value, new, fts_column)
    ELSE LET c == eval_condition(fn.update_if, new, old)
             v == eval_vectors(fn.update_value, new)
         IN  IF c.error THEN [error |-> TRUE, row |-> new]
             ELSE IF c.value # "TRUE" THEN [error |-> FALSE, row |-> new]
             ELSE IF v.error THEN [error |-> TRUE, row |-> new]
             ELSE assign(fn.update_target, v.value, new, fts_column)

(***************************************************************************)
(* The row model: the table blog_article after CreateFTSTriggerOperation   *)
(* has installed its trigger, under INSERT and UPDATE statements.  A row   *)
(* is a record [present, data, fts, direct]: data maps the text and        *)
(* regconfig columns to their values, fts is the value of the tsvector     *)
(* column, direct says whether an UPDATE has set the tsvector column.      *)
(***************************************************************************)
ArticleKey == <<"blog", "Article">>

ConfigColumns == {Column("lang"), Column("dict")}

DataColumns == {Column(n) : n \in SourceNames} \cup ConfigColumns

\* the columns the trigger of the field `fts` of state st depends on
TriggerColumns(st) ==
    LET model == st[ArticleKey]
        vf == get_field_by_name(model, "fts")
    IN  {Column(vf.fields[i][1]) : i \in 1..Len(vf.fields)} \cup
        (IF has_field(model, vf.dictionary)
         THEN {Column(vf.dictionary)} ELSE {})

\* the values a statement may give the columns: the columns the trigger
\* does not depend on keep their defaults
RowData(st) ==
    LET default(c) == IF c \in ConfigColumns THEN "english" ELSE Null
        values(c) == IF c \in ConfigColumns THEN ConfigValues ELSE TextValues
        given == {v \in [TriggerColumns(st) -> TextValues \cup ConfigValues] :
                     \A c \in TriggerColumns(st) : v[c] \in values(c)}
    IN  {[c \in DataColumns |->
             IF c \in TriggerColumns(st) THEN v[c] ELSE default(c)] :
         v \in given}

\* the tsvector values a statement may write to the tsvector column
DirectVectors ==
    { << >>, << [config |-> "english", lexeme |-> "spam", weight |-> "A"] >> }

NoRow ==
    [present |-> FALSE, data |-> [c \in DataColumns |-> Null], fts |-> << >>,
     direct |-> FALSE]

\* the operation that installs the trigger
InstallOperation == CreateFTSTriggerOperation_init("Article", "fts").value

TriggerInit ==
    /\ state \in {st \in ProjectStates :
                    isinstance_TSVectorField(
                        get_field_by_name(st[ArticleKey], "fts"))}
    /\ op = InstallOperation
    /\ LET r == CreateFTSTriggerOperation_database_forwards(op, "blog", state)
           x == schema_editor_execute(EmptyDatabase, r.value[1])
       IN  /\ db = x.db
           /\ installed = <<parse_function(r.value[1][1])>>
           /\ last = [NoCall EXCEPT !.cls = op.cls,
                                    !.method = "database_forwards",
                                    !.self = op, !.app_label = "blog",
                                    !.raised = x.raised,
                                    !.executed = r.value, !.trace = x.trace]
    /\ rows = [r \in 1..MaxRows |-> NoRow]

\* INSERT INTO blog_article: a statement the trigger fails on changes
\* nothing
Insert ==
    \E r \in 1..MaxRows, data \in RowData(state), fts \in DirectVectors :
        /\ ~rows[r].present
        /\ LET new == [present |-> TRUE, data |-> data, fts |-> fts,
                       direct |-> FALSE]
               t == trigger_function(installed[1], "INSERT", new, new,
                                     Column("fts"))
           IN  /\ rows' = IF t.error THEN rows ELSE [rows EXCEPT ![r] = t.row]
               /\ last' = [NoCall EXCEPT
                              !.method = "INSERT",
                              !.raised = IF t.error THEN "InternalError"
                                         ELSE "None"]
        /\ UNCHANGED <<state, db, op, installed>>

\* UPDATE blog_article SET ...: any of the columns, the tsvector column
\* among them
Update ==
    \E r \in 1..MaxRows, data \in RowData(state) :
        /\ rows[r].present
        /\ \E fts \in DirectVectors \cup {rows[r].fts} :
            LET old == rows[r]
                new == [present |-> TRUE, data |-> data, fts |-> fts,
                        direct |-> old.direct \/ fts # old.fts]
                t == trigger_function(installed[1], "UPDATE", new, old,
                                      Column("fts"))
            IN  /\ rows' = IF t.error THEN rows
                           ELSE [rows EXCEPT ![r] = t.row]
                /\ last' = [NoCall EXCEPT
                               !.method = "UPDATE",
                               !.raised = IF t.error THEN "InternalError"
                                          ELSE "None"]
        /\ UNCHANGED <<state, db, op, installed>>

TriggerNext == Insert \/ Update

TriggerSpec == TriggerInit /\ [][TriggerNext]_vars

(***************************************************************************)
(* Properties.                                                             *)
(***************************************************************************)
DatabaseMethods == {"database_forwards", "database_backwards"}

IndexClasses == {"CreateFTSIndexOperation", "DeleteFTSIndexOperation"}

TriggerClasses == {"CreateFTSTriggerOperation", "DeleteFTSTriggerOperation"}

\* the last call was a database_* call
DatabaseCall == last.method \in DatabaseMethods

\* the last call was a database_* call whose model and field exist in the
\* state
Resolved ==
    DatabaseCall /\ lookup_raises(last.self, last.app_label, state) = "None"

ResolvedModel == lookup_model(last.self, last.app_label, state)

ResolvedField == lookup_field(last.self, last.app_label, state)

\* the last call was one of the four methods that create a trigger or an
\* index
CreatePath ==
    \/ last.method = "database_forwards" /\
       last.cls \in {"CreateFTSTriggerOperation", "CreateFTSIndexOperation"}
    \/ last.method = "database_backwards" /\
       last.cls \in {"DeleteFTSTriggerOperation", "DeleteFTSIndexOperation"}

\* C1: constructing CreateFTSIndexOperation or DeleteFTSIndexOperation with
\* an index outside ('gin', 'gist') raises AssertionError and produces no
\* object; with 'gin' or 'gist' it succeeds and the object stores name,
\* fts_vector and index as given.
C1_IndexAllowList ==
    (last.method = "__init__" /\ last.cls \in IndexClasses) =>
        IF last.args[3] \in {"gin", "gist"}
        THEN /\ last.raised = "None"
             /\ last.self = [cls |-> last.cls, name |-> last.args[1],
                             fts_vector |-> last.args[2],
                             index |-> last.args[3]]
             /\ op = last.self
        ELSE /\ last.raised = "AssertionError"
             /\ last.self = NoObject
             /\ op # [cls |-> last.cls, name |-> last.args[1],
                      fts_vector |-> last.args[2], index |-> last.args[3]]

C1_Witness ==
    /\ last.method = "__init__"
    /\ last.cls = "CreateFTSIndexOperation"
    /\ last.args[3] = "btree"
    /\ last.raised = "AssertionError"

\* C2: for a TSVectorField, a database_backwards call that follows a
\* database_forwards call of the same operation which succeeded also
\* succeeds, and leaves the database's functions, triggers and indexes as
\* they were before the database_forwards call.
C2_RoundTrip ==
    (last.after_forwards /\ isinstance_TSVectorField(ResolvedField)) =>
        /\ last.raised = "None"
        /\ db = last.origin

C2_Witness ==
    /\ last.after_forwards
    /\ last.cls = "CreateFTSTriggerOperation"
    /\ isinstance_TSVectorField(ResolvedField)
    /\ last.raised = "None"
    /\ Len(last.trace) = 2
    /\ db = last.origin

\* C3: whenever database_forwards returns normally, database_backwards
\* called next on the same state returns normally too, whatever the class
\* of the field.
C3_BackwardsAcceptsWhatForwardsAccepted ==
    last.after_forwards => last.raised = "None"

\* C4 (as amended): a database_* call that returns normally has called
\* schema_editor.execute exactly once, with one SQL string; a call that
\* raises from its lookups or its own check has not called it; a call
\* that raises because schema_editor.execute raised has called it once;
\* the create paths raise AttributeError, before any SQL is executed, when
\* the field is not a TSVectorField.
C4_ExecuteOnceOrNotAtAll ==
    DatabaseCall =>
        /\ last.raised \in {"None", "LookupError", "FieldDoesNotExist",
                            "AttributeError", "ProgrammingError"}
        /\ last.raised = "None" =>
               Len(last.executed) = 1 /\ Len(last.executed[1]) >= 1
        /\ last.raised \in {"LookupError", "FieldDoesNotExist",
                            "AttributeError"} => Len(last.executed) = 0
        /\ last.raised = "ProgrammingError" => Len(last.executed) = 1
        /\ (Resolved /\ CreatePath
                /\ ~isinstance_TSVectorField(ResolvedField)) =>
               last.raised = "AttributeError" /\ Len(last.executed) = 0

C4_Witness ==
    /\ Resolved
    /\ last.cls = "DeleteFTSIndexOperation"
    /\ last.method = "database_backwards"
    /\ ~isinstance_TSVectorField(ResolvedField)
    /\ last.raised = "AttributeError"
    /\ Len(last.executed) = 0

\* C4 as stated: a database_* call calls schema_editor.execute once when
\* it returns normally and not at all when it raises.
C4_NoExecuteWhenRaising ==
    DatabaseCall =>
        /\ last.raised = "None" => Len(last.executed) = 1
        /\ last.raised # "None" => Len(last.executed) = 0

\* the vector the claim C5 expects in the tsvector column of a row: the
\* weighted vectors of the row's current source values, in field order,
\* with COALESCE(column, '') and the configured dictionary
ExpectedVector(st, row) ==
    LET model == st[ArticleKey]
        vf == get_field_by_name(model, "fts")
        config == IF has_field(model, vf.dictionary)
                  THEN row.data[Column(vf.dictionary)]
                  ELSE vf.dictionary
    IN  concat([i \in 1..Len(vf.fields) |->
                  setweight(to_tsvector(config,
                                coalesce(row.data[Column(vf.fields[i][1])])),
                            vf.fields[i][2])])

\* C5, whole: with the trigger installed, after any INSERTs and UPDATEs
\* the tsvector column of every row equals the vector computed from the
\* row's current source values.
C5_TriggerMaintainsColumn ==
    \A r \in DOMAIN rows :
        rows[r].present => rows[r].fts = ExpectedVector(state, rows[r])

\* C5, for the rows no UPDATE has written the tsvector column of: after
\* any INSERTs and UPDATEs of the source columns, changes from and to NULL
\* among them, the tsvector column equals the vector computed from the
\* row's current source values.
C5_TriggerFollowsSourceColumns ==
    \A r \in DOMAIN rows :
        (rows[r].present /\ ~rows[r].direct) =>
            rows[r].fts = ExpectedVector(state, rows[r])

\* C6: the names `import *` exports are four, each the name of an
\* operation class of the module, and all four classes are among them;
\* the import does not fail.
C6_AllNamesTheFourClasses ==
    last.method = "import *" =>
        /\ last.raised = "None"
        /\ Len(last.args) = 4
        /\ \A i \in 1..Len(last.args) : last.args[i] \in OperationClasses
        /\ {last.args[i] : i \in 1..Len(last.args)} = OperationClasses

\* the call that mirrors the last call: the opposite method of the
\* opposite class, with the same attributes and arguments
MirrorOfLast ==
    LET self == last.self
        a == last.app_label
        f == last.method = "database_forwards"
    IN  CASE last.cls = "CreateFTSTriggerOperation" ->
                IF f THEN DeleteFTSTriggerOperation_database_backwards(
                              self, a, state)
                ELSE DeleteFTSTriggerOperation_database_forwards(
                              self, a, state)
          [] last.cls = "DeleteFTSTriggerOperation" ->
                IF f THEN CreateFTSTriggerOperation_database_backwards(
                              self, a, state)
                ELSE CreateFTSTriggerOperation_database_forwards(
                              self, a, state)
          [] last.cls = "CreateFTSIndexOperation" ->
                IF f THEN DeleteFTSIndexOperation_database_backwards(
                              self, a, state)
                ELSE DeleteFTSIndexOperation_database_forwards(
                              self, a, state)
          [] last.cls = "DeleteFTSIndexOperation" ->
                IF f THEN CreateFTSIndexOperation_database_backwards(
                              self, a, state)
                ELSE CreateFTSIndexOperation_database_forwards(
                              self, a, state)

\* C7: a database_* call of a Create operation passes schema_editor.execute
\* the same SQL as the opposite call of the Delete operation with the same
\* attributes, and the two raise the same exception or both pass their SQL
\* on; and the other way round.
C7_CreateAndDeleteMirror ==
    DatabaseCall =>
        /\ MirrorOfLast.value = last.executed
        /\ (MirrorOfLast.raised = "None") = (Len(last.executed) = 1)
        /\ MirrorOfLast.raised # "None" => MirrorOfLast.raised = last.raised

C7_Witness ==
    /\ Resolved
    /\ last.cls = "DeleteFTSIndexOperation"
    /\ last.method = "database_backwards"
    /\ last.self.index = "gist"
    /\ last.raised = "None"
    /\ Len(last.executed) = 1
    /\ last.executed[1][1].stmt = "CREATE INDEX"
    /\ MirrorOfLast.value = last.executed

\* C8: no call changes the migration state, state_forwards included, and
\* the database changes only in database_forwards and database_backwards.
C8_StateUntouched ==
    [][ /\ state' = state
        /\ db' # db => last'.method \in DatabaseMethods ]_vars

C8_Witness ==
    /\ last.method = "state_forwards"
    /\ last.cls = "DeleteFTSTriggerOperation"
    /\ state \in ProjectStates

\* every trigger of database d executes a function of d
TriggersHaveFunctions(d) == \A t \in d.triggers : t.procedure \in d.functions

\* C9: the creation script creates the function before the trigger that
\* executes it and the deletion script drops the trigger before the
\* function, so that in no state a script goes through, and in no state it
\* leaves, a trigger lacks its function; both scripts name the same
\* function and the same trigger on the same table.
C9_TriggerNeverWithoutFunction ==
    /\ TriggersHaveFunctions(db)
    /\ \A i \in 1..Len(last.trace) : TriggersHaveFunctions(last.trace[i])
    /\ (Resolved /\ last.cls \in TriggerClasses
            /\ isinstance_TSVectorField(ResolvedField)) =>
        LET c == create_fts_trigger(ResolvedModel, ResolvedField).value
            d == delete_trigger(ResolvedModel, ResolvedField)
        IN  /\ Len(c) = 2 /\ Len(d) = 2
            /\ c[1].stmt = "CREATE FUNCTION" /\ c[2].stmt = "CREATE TRIGGER"
            /\ d[1].stmt = "DROP TRIGGER" /\ d[2].stmt = "DROP FUNCTION"
            /\ c[2].procedure = c[1].name
            /\ d[2].name = c[1].name
            /\ d[1].name = c[2].name /\ d[1].on = c[2].on
            /\ c[1].name = trigger_name(ResolvedModel.db_table,
                                        ResolvedField.column)

C9_Witness ==
    /\ Resolved
    /\ last.cls = "CreateFTSTriggerOperation"
    /\ last.method = "database_backwards"
    /\ last.raised = "None"
    /\ Len(last.trace) = 2
    /\ last.pre.triggers # {}
    /\ last.trace[1].triggers = {} /\ last.trace[1].functions # {}
    /\ db.functions = {}

\* C10: in the SQL create_fts_trigger produces, when the dictionary names
\* a field of the model every vector uses NEW.<c>::regconfig and the first
\* disjunct of the UPDATE condition is NEW.<c> <> OLD.<c>, <c> the column
\* of that field in both places; otherwise every vector uses the
\* dictionary as a quoted literal and the condition has no dictionary
\* disjunct.  The condition has one further disjunct per indexed field,
\* in the order of the vectors, and both branches assign the same vectors.
C10_DictionaryResolvedConsistently ==
    (Resolved /\ CreatePath /\ last.cls \in TriggerClasses
        /\ Len(last.executed) = 1) =>
        LET model == ResolvedModel
            vf == ResolvedField
            far == _get_fields_and_ranks(model, vf)
            fn == last.executed[1][1]
            conds == split(fn.update_if, " OR ")
            vecs == parse_vectors(fn.update_value)
            named == has_field(model, vf.dictionary)
            c == get_field_by_name(model, vf.dictionary).column
            own == IF named THEN 1 ELSE 0
        IN  /\ fn.insert_value = fn.update_value
            /\ fn.insert_target = fn.update_target
            /\ Len(vecs) = Len(far)
            /\ Len(conds) = own + Len(far)
            /\ named => conds[1] = changed(c)
            /\ \A i \in 1..Len(far) :
                /\ ~vecs[i].error
                /\ vecs[i].column = far[i].field.column
                /\ vecs[i].weight = far[i].rank
                /\ vecs[i].dictionary.literal = ~named
                /\ vecs[i].dictionary.value =
                       IF named THEN c ELSE vf.dictionary
                /\ conds[own + i] = changed(far[i].field.column)

=============================================================================
